---- MODULE Spec2Model ----
(***************************************************************************)
(* Schedule execution engine (ScheduleExecutor) and usage governor         *)
(* (ApiRateLimiter) of the threads-admin-panel repository.                 *)
(*                                                                         *)
(* Instants are integers counted in ticks; TicksPerDay ticks make one      *)
(* calendar day and tick 0 is 00:00 on 1 January of Year0.  Every await    *)
(* of the TypeScript code is a point where another request, timer callback *)
(* or the clock may run, so each action below is the code between two      *)
(* awaits.                                                                 *)
(***************************************************************************)
EXTENDS Integers, Sequences, FiniteSets, TLC

\* null; instants are never negative
Null == -1

\* ------------------------------------------------------------------------
\* Bounds of the model
\* ------------------------------------------------------------------------
TicksPerDay == 1
Year0 == 2024
MaxBase == 31
MaxNow == 70

\* ------------------------------------------------------------------------
\* Calendar arithmetic of the JavaScript Date object (local time, no DST)
\* ------------------------------------------------------------------------
IsLeap(y) ==
    (y % 4 = 0 /\ y % 100 # 0) \/ y % 400 = 0

DaysInMonth(y, m) ==
    IF m = 1 THEN (IF IsLeap(y) THEN 29 ELSE 28)
    ELSE IF m \in {3, 5, 8, 10} THEN 30 ELSE 31

DaysInYear(y) ==
    IF IsLeap(y) THEN 366 ELSE 365

RECURSIVE DaysBeforeYear(_)
DaysBeforeYear(y) ==
    IF y <= Year0 THEN 0 ELSE DaysBeforeYear(y - 1) + DaysInYear(y - 1)

RECURSIVE DaysBeforeMonth(_, _)
DaysBeforeMonth(y, m) ==
    IF m = 0 THEN 0 ELSE DaysBeforeMonth(y, m - 1) + DaysInMonth(y, m - 1)

\* Date(y, m, d): m may exceed 11 and d may exceed the month's length; both
\* roll over into the following month or year.
DayNumber(y, m, d) ==
    LET yy == y + (m \div 12)
        mm == m % 12
    IN  DaysBeforeYear(yy) + DaysBeforeMonth(yy, mm) + (d - 1)

RECURSIVE YearOf(_, _)
YearOf(dn, y) ==
    IF dn < DaysInYear(y) THEN <<y, dn>> ELSE YearOf(dn - DaysInYear(y), y + 1)

RECURSIVE MonthOf(_, _, _)
MonthOf(y, dn, m) ==
    IF dn < DaysInMonth(y, m) THEN <<m, dn + 1>>
    ELSE MonthOf(y, dn - DaysInMonth(y, m), m + 1)

getFullYear(t) == YearOf(t \div TicksPerDay, Year0)[1]
getMonth(t) ==
    LET yd == YearOf(t \div TicksPerDay, Year0) IN MonthOf(yd[1], yd[2], 0)[1]
getDate(t) ==
    LET yd == YearOf(t \div TicksPerDay, Year0) IN MonthOf(yd[1], yd[2], 0)[2]
TimeOfDay(t) == t % TicksPerDay

\* next.setDate(d): same year, month and time of day, day of month d
setDate(t, d) ==
    DayNumber(getFullYear(t), getMonth(t), d) * TicksPerDay + TimeOfDay(t)

\* next.setMonth(m): same year, day of month and time of day, month m
setMonth(t, m) ==
    DayNumber(getFullYear(t), m, getDate(t)) * TicksPerDay + TimeOfDay(t)

Frequencies == {"once", "daily", "weekly", "monthly"}
Recurring == {"daily", "weekly", "monthly"}

\* One recurrence step of the loops of calculateNextRun
Step(t, frequency) ==
    CASE frequency = "daily" -> setDate(t, getDate(t) + 1)
      [] frequency = "weekly" -> setDate(t, getDate(t) + 7)
      [] frequency = "monthly" -> setMonth(t, getMonth(t) + 1)
      [] OTHER -> t

RECURSIVE AdvanceWhileDue(_, _, _)
AdvanceWhileDue(next, frequency, n) ==
    IF next <= n THEN AdvanceWhileDue(Step(next, frequency), frequency, n)
    ELSE next

\* Plausible slip: a single conditional step instead of the loop
calculateNextRun_once_only(baseTime, frequency, n) ==
    IF frequency \in Recurring /\ baseTime <= n
    THEN Step(baseTime, frequency) ELSE baseTime

\* Plausible slip: a one-shot schedule is advanced like a daily one
calculateNextRun_once_advanced(baseTime, frequency, n) ==
    IF frequency \in Recurring
    THEN AdvanceWhileDue(baseTime, frequency, n)
    ELSE AdvanceWhileDue(baseTime, "daily", n)

\* ScheduleExecutor.calculateNextRun with its "new Date()" passed as n
calculateNextRun(baseTime, frequency, n) ==
    IF frequency \in Recurring
    THEN AdvanceWhileDue(baseTime, frequency, n)
    ELSE baseTime

\* calculateNextRun of the schedule routes (activate, reset, edit): 'once'
\* and the default return the copy of baseTime, the others loop
routeCalculateNextRun(baseTime, frequency, n) ==
    CASE frequency = "once" -> baseTime
      [] frequency = "daily" -> AdvanceWhileDue(baseTime, "daily", n)
      [] frequency = "weekly" -> AdvanceWhileDue(baseTime, "weekly", n)
      [] frequency = "monthly" -> AdvanceWhileDue(baseTime, "monthly", n)
      [] OTHER -> baseTime

\* calculateNextRun of the create route (POST /api/admin/schedules): 'once'
\* and the default return the copy of baseTime, the others take one
\* conditional step
createCalculateNextRun(baseTime, frequency, n) ==
    CASE frequency = "once" -> baseTime
      [] frequency = "daily" ->
            IF baseTime <= n THEN setDate(baseTime, getDate(baseTime) + 1) ELSE baseTime
      [] frequency = "weekly" ->
            IF baseTime <= n THEN setDate(baseTime, getDate(baseTime) + 7) ELSE baseTime
      [] frequency = "monthly" ->
            IF baseTime <= n THEN setMonth(baseTime, getMonth(baseTime) + 1) ELSE baseTime
      [] OTHER -> baseTime

\* ------------------------------------------------------------------------
\* State
\* ------------------------------------------------------------------------
VARIABLES
    now,         \* the wall clock read by every "new Date()"
    schedule,    \* the Schedule table: one row per schedule id
    isRunning,   \* ScheduleExecutor.isRunning, the run-state flag
    call,        \* per entry point: where its executeSchedules call stands
    sweeps,      \* number of triggers so far (bounds the model)
    nExec,       \* history: executeSchedule invocations per schedule
    rlNow,       \* the clock read by checkRateLimit
    usageCache,  \* ApiRateLimiter.usageCache: key -> reference to a usage object
    heap,        \* the usage objects {count, reset} by reference
    rl,          \* per request: where its checkRateLimit call stands
    rlCalls,     \* number of checkRateLimit calls so far (also the next reference)
    limitPerHour,\* the limitPerHour argument the callers of a key pass
    apiRateLimit,\* value of the api_rate_limit setting, NoSetting without the row
    endpointRateLimit, \* value of the api_rate_limit_<endpoint> setting, or NoSetting
    gReset,      \* history: per key, end of the window the latest call fell in
    gCount,      \* history: per key, calls begun in that window
    gAllowed,    \* history: per key, calls of that window answered allowed
    gDenials,    \* history: per key, calls ever answered not allowed
    apiUsageLog, \* number of adminLog rows with action 'api_usage'
    rlNotifications, \* createdAt of the unread notifications titled 'API制限警告'
    nrBase,      \* next-run calculation: baseTime argument
    nrFreq,      \* next-run calculation: frequency argument
    nrNow,       \* next-run calculation: value of new Date()
    nrResult,    \* next-run calculation: returned instant, Null before the call
    nrRouteResult, \* the same for the calculation of the schedule routes
    nrCreateResult, \* the same for the calculation of the create route
    tkNow,       \* the clock read by trackTokenUsage and by the generation routes
    maxTokensPerDay, \* value of the max_tokens_per_day setting, or NoSetting
    generations, \* the AIGeneration rows of the user: createdAt and tokensUsed
    notifications, \* the Notification rows of the user: type and createdAt
    tk,          \* where the trackTokenUsage call stands
    tkChecks,    \* number of trackTokenUsage calls so far (bounds the model)
    pxNow,       \* one loop iteration of executeSchedules: value of new Date()
    pxSchedule,  \* one loop iteration: the Schedule row
    px,          \* one loop iteration: where it stands and what it did
    maintenance, \* the maintenance settings: mode flag and scheduled window
    workerIsRunning, \* BackgroundWorker.isRunning
    intervalId,  \* BackgroundWorker.intervalId, Null without a timer
    checkInterval, \* BackgroundWorker.checkInterval, in ms
    timers,      \* the interval timers that are set: id, period, next firing instant
    pendingChecks, \* executeCheck calls waiting for their count of due schedules
    timersCreated, \* number of setInterval calls so far (also the latest id)
    startedAt,   \* history: instant (ms) of the latest start that took effect
    checksSinceStart, \* history: executeCheck calls begun since that start
    setCalls,    \* number of setCheckInterval calls so far
    lastSet,     \* history: argument and outcome of the latest setCheckInterval
    response,    \* per trigger route, the answer it gave last
    patch,       \* the PATCH /api/admin/schedules/[id] request under way
    patches,     \* number of PATCH requests so far
    mw,          \* per middleware, the request it is serving
    mwRuns       \* per middleware, the requests it has taken so far

sweepVars == <<now, schedule, isRunning, call, sweeps, nExec>>
\* the configuration a run of the rate limiter works under
rlConfig == <<limitPerHour, apiRateLimit, endpointRateLimit>>
\* the rows checkRateLimit writes
rlLedger == <<apiUsageLog, rlNotifications>>
rlVars == <<rlNow, usageCache, heap, rl, rlCalls, rlConfig,
            endpointRateLimit, gReset, gCount, gAllowed, gDenials, rlLedger>>
nrVars == <<nrBase, nrFreq, nrNow, nrResult, nrRouteResult, nrCreateResult>>
tkVars == <<tkNow, maxTokensPerDay, generations, notifications, tk, tkChecks>>

pxVars == <<pxNow, pxSchedule, px, maintenance>>

bwVars == <<workerIsRunning, intervalId, checkInterval, timers, pendingChecks,
            timersCreated, startedAt, checksSinceStart, setCalls, lastSet>>

trVars == <<response>>

opVars == <<patch, patches>>

mwVars == <<mw, mwRuns>>

vars == <<sweepVars, rlVars, nrVars, tkVars, pxVars, bwVars, trVars, opVars, mwVars>>

\* what the actions of one component leave alone
nonSweepVars == <<rlVars, nrVars, tkVars, pxVars, bwVars, trVars, opVars, mwVars>>
nonRlVars == <<sweepVars, nrVars, tkVars, pxVars, bwVars, trVars, opVars, mwVars>>
nonNrVars == <<sweepVars, rlVars, tkVars, pxVars, bwVars, trVars, opVars, mwVars>>
nonTkVars == <<sweepVars, rlVars, nrVars, pxVars, bwVars, trVars, opVars, mwVars>>
nonPxVars == <<sweepVars, rlVars, nrVars, tkNow, maxTokensPerDay, notifications, tk,
               tkChecks, bwVars, trVars, opVars, mwVars>>
\* the worker's actions change the worker and, through executeCheck, the sweep
nonBwVars == <<rlVars, nrVars, tkVars, pxVars, trVars, opVars, mwVars>>
\* the trigger routes change their answer and the sweep's call
nonTrVars == <<rlVars, nrVars, tkVars, pxVars, bwVars, opVars, mwVars>>
\* the operator's actions change their request and the Schedule table
nonOpVars == <<rlVars, nrVars, tkVars, pxVars, bwVars, trVars, mwVars>>
\* the middlewares' own steps change the request they serve
nonMwVars == <<sweepVars, rlVars, nrVars, tkVars, pxVars, bwVars, trVars, opVars>>

\* ------------------------------------------------------------------------
\* System settings: the value column is text, read with parseInt
\* ------------------------------------------------------------------------
NaN == -2

\* findUnique finds no row; a stored value is never the empty text
NoSetting == <<>>

DigitChars == <<"0", "1", "2", "3", "4", "5", "6", "7", "8", "9">>

IsDigit(c) == \E i \in DOMAIN DigitChars : DigitChars[i] = c

DigitValue(c) == (CHOOSE i \in DOMAIN DigitChars : DigitChars[i] = c) - 1

\* the value of the leading decimal digits of text[i..]
RECURSIVE ParseDigits(_, _, _)
ParseDigits(text, i, acc) ==
    IF i > Len(text) \/ ~IsDigit(text[i])
    THEN acc
    ELSE ParseDigits(text, i + 1, acc * 10 + DigitValue(text[i]))

\* parseInt(setting.value): NaN unless the text starts with a digit
parseInt(text) ==
    IF text = <<>> \/ ~IsDigit(text[1]) THEN NaN ELSE ParseDigits(text, 1, 0)

\* Number.prototype.toString for 0..99, the text the settings editor stores
RECURSIVE NumberText(_)
NumberText(n) ==
    IF n < 10 THEN <<DigitChars[n + 1]>>
    ELSE NumberText(n \div 10) \o <<DigitChars[(n % 10) + 1]>>

\* ------------------------------------------------------------------------
\* Schedule execution: ScheduleExecutor and its three entry points
\* ------------------------------------------------------------------------
MaxTime == 1
MaxSweeps == 2

Sched == {"s1", "s2"}
Callers == {"timer", "cron", "manual"}

\* schedule.name selects the pipeline in executeSchedule
Names == {"greeting", "ai", "generic"}

\* the awaited database and service calls of one executeSchedule that can reject
FaultSites == {"gen", "aigen", "create1", "update1", "log1",
               "create2", "update2", "log2", "errlog"}
CreateSite == <<"create1", "create2">>
UpdateSite == <<"update1", "update2">>
LogSite == <<"log1", "log2">>

RelevantSites(name) ==
    IF name = "ai" THEN FaultSites ELSE {"create1", "update1", "log1", "errlog"}

\* createAndPostContent, n-th call within one execution, F the rejecting calls
createAndPostContent(n, F, type) ==
    IF CreateSite[n] \in F
    THEN [threw |-> TRUE, type |-> type, posts |-> <<>>]
    ELSE IF UpdateSite[n] \in F
    THEN [threw |-> TRUE, type |-> type,
          posts |-> <<[status |-> "published", threadsPostId |-> FALSE,
                       type |-> type]>>]
    ELSE IF LogSite[n] \in F
    THEN [threw |-> TRUE, type |-> type,
          posts |-> <<[status |-> "published", threadsPostId |-> TRUE,
                       type |-> type]>>]
    ELSE [threw |-> FALSE, type |-> type,
          posts |-> <<[status |-> "published", threadsPostId |-> TRUE,
                       type |-> type]>>]

executeGreetingPost(F) == createAndPostContent(1, F, "greeting_post")

executeGenericPost(F) == createAndPostContent(1, F, "generic_post")

executeAIPost(F) ==
    IF "gen" \in F \/ "aigen" \in F
    THEN createAndPostContent(2, F, "fallback_post")
    ELSE LET r1 == createAndPostContent(1, F, "ai_post")
             r2 == createAndPostContent(2, F, "fallback_post")
         IN  IF r1.threw THEN [r2 EXCEPT !.posts = r1.posts \o r2.posts]
             ELSE r1

Failed(id) ==
    [scheduleId |-> id, success |-> FALSE, message |-> "Execution failed"]

\* the switch on schedule.name
runPipeline(snap, F) ==
    CASE snap.name = "greeting" -> executeGreetingPost(F)
      [] snap.name = "ai" -> executeAIPost(F)
      [] OTHER -> executeGenericPost(F)

\* the calls to services outside the store that the pipeline attempts:
\* executeAIPost starts with model.generateContent, the others make none
ServiceCalls(snap) ==
    IF snap.name = "ai" THEN {"generateContent"} ELSE {}

\* aIGeneration.create of executeAIPost is reached and succeeds
GenerationRecorded(snap, F) ==
    snap.name = "ai" /\ "gen" \notin F /\ "aigen" \notin F

\* executeSchedule: a result, or threw = TRUE when its own error log rejects
executeSchedule(snap, F) ==
    LET r == runPipeline(snap, F)
    IN  IF ~r.threw
        THEN [threw |-> FALSE,
              result |-> [scheduleId |-> snap.id, success |-> TRUE,
                          message |-> r.type]]
        ELSE IF "errlog" \in F
        THEN [threw |-> TRUE, result |-> Failed(snap.id)]
        ELSE [threw |-> FALSE, result |-> Failed(snap.id)]

\* what one executeSchedule can come to, over all rejections
Outcomes(snap) ==
    {executeSchedule(snap, F) : F \in SUBSET RelevantSites(snap.name)}

\* the where clause of getDueSchedules
IsDue(row, n) ==
    row.isActive /\ row.nextRun # Null /\ row.nextRun <= n

DueSet(n) == {s \in Sched : IsDue(schedule[s], n)}

\* orderBy nextRun asc; rows with equal nextRun come in either order
RECURSIVE Orderings(_)
Orderings(S) ==
    IF S = {} THEN {<<>>}
    ELSE LET low == {s \in S : \A t \in S : schedule[s].nextRun <= schedule[t].nextRun}
         IN  UNION {{<<s>> \o rest : rest \in Orderings(S \ {s})} : s \in low}

Snapshot(s) == [id |-> s] @@ schedule[s]

\* the data object built by updateScheduleAfterExecution, merged into the row
updateScheduleAfterExecution(row, snap, success, n) ==
    LET base == [row EXCEPT !.lastRun = n, !.runCount = snap.runCount + 1]
    IN  IF success /\ snap.frequency # "once"
        THEN [base EXCEPT !.nextRun = calculateNextRun(snap.time, snap.frequency, n)]
        ELSE IF snap.frequency = "once"
        THEN [base EXCEPT !.isActive = FALSE]
        ELSE base

\* due: the rows read by getDueSchedules; idx: position of the for loop;
\* entered: executeSchedules was called; skipped: it returned at the guard;
\* threw: it rejected; booked: schedules whose row this sweep has updated;
\* faulty: schedules for which a call of this sweep rejected
IdleCall ==
    [pc |-> "idle", due |-> <<>>, idx |-> 0, results |-> <<>>,
     entered |-> FALSE, skipped |-> FALSE, threw |-> FALSE,
     booked |-> <<>>, faulty |-> {}]

\* no entry point is about to hand its answer back
Quiet == \A c \in Callers : call[c].pc # "returned"

Ready(c) == Quiet /\ call[c].pc = "idle"

Sweeping(c) == call[c].pc \in {"getDue", "loop", "update"}

\* the schedules the model starts with: every pipeline and every frequency
Fixtures == {<<"greeting", "daily">>, <<"ai", "once">>,
             <<"generic", "weekly">>, <<"ai", "monthly">>}

\* the instants the schedules are set for
SchedTimes == {0, 1}

\* a row as POST /api/admin/schedules stores it for a time not yet reached
NewRows ==
    {[name |-> fx[1], frequency |-> fx[2], time |-> t, isActive |-> TRUE,
      lastRun |-> Null, nextRun |-> t, runCount |-> 0] :
     fx \in Fixtures, t \in SchedTimes}

SweepStart ==
    /\ now = 0
    /\ schedule \in {tb \in [Sched -> NewRows] :
                        /\ tb["s1"].time = 0
                        /\ tb["s1"].frequency \in {"once", "daily"}
                        /\ tb["s2"].time # 0}
    /\ isRunning = FALSE
    /\ call = [c \in Callers |-> IdleCall]
    /\ sweeps = 0
    /\ nExec = [s \in Sched |-> 0]

\* Plausible slip: the guard on the run-state flag is missing
executeSchedulesEntry_unguarded(c) ==
    /\ isRunning' = TRUE
    /\ call' = [call EXCEPT ![c] = [IdleCall EXCEPT !.pc = "getDue", !.entered = TRUE]]

\* executeSchedules up to its first await: test and set of the flag
executeSchedulesEntry(c) ==
    IF isRunning
    THEN /\ call' = [call EXCEPT ![c] = [IdleCall EXCEPT !.pc = "returned",
                                          !.entered = TRUE, !.skipped = TRUE]]
         /\ UNCHANGED isRunning
    ELSE /\ isRunning' = TRUE
         /\ call' = [call EXCEPT ![c] = [IdleCall EXCEPT !.pc = "getDue",
                                          !.entered = TRUE]]

\* the clock advances
Tick ==
    /\ UNCHANGED nonSweepVars
    /\ Quiet
    /\ now < MaxTime
    /\ now' = now + 1
    /\ UNCHANGED <<schedule, isRunning, call, sweeps, nExec>>

\* BackgroundWorker.executeCheck starts: the count query is issued
TimerTick ==
    /\ UNCHANGED nonSweepVars
    /\ Ready("timer")
    /\ sweeps < MaxSweeps
    /\ sweeps' = sweeps + 1
    /\ call' = [call EXCEPT !["timer"] = [IdleCall EXCEPT !.pc = "count"]]
    /\ UNCHANGED <<now, schedule, isRunning, nExec>>

\* executeCheck after the count: return when nothing is due (or the count
\* rejects), else call executeSchedules
TimerCount ==
    /\ UNCHANGED nonSweepVars
    /\ Quiet
    /\ call["timer"].pc = "count"
    /\ \E countOk \in BOOLEAN :
         IF countOk /\ DueSet(now) # {}
         THEN executeSchedulesEntry("timer")
         ELSE /\ call' = [call EXCEPT !["timer"] = [IdleCall EXCEPT !.pc = "returned"]]
              /\ UNCHANGED isRunning
    /\ UNCHANGED <<now, schedule, sweeps, nExec>>

\* POST /api/admin/cron: getStatus() test, then executeSchedules
CronPost ==
    /\ UNCHANGED nonSweepVars
    /\ Ready("cron")
    /\ sweeps < MaxSweeps
    /\ sweeps' = sweeps + 1
    /\ IF isRunning
       THEN /\ call' = [call EXCEPT !["cron"] = [IdleCall EXCEPT !.pc = "returned"]]
            /\ UNCHANGED isRunning
       ELSE executeSchedulesEntry("cron")
    /\ UNCHANGED <<now, schedule, nExec>>

\* POST /api/admin/scheduler, action execute_now
ManualPost ==
    /\ UNCHANGED nonSweepVars
    /\ Ready("manual")
    /\ sweeps < MaxSweeps
    /\ sweeps' = sweeps + 1
    /\ executeSchedulesEntry("manual")
    /\ UNCHANGED <<now, schedule, nExec>>

\* Plausible slip: a rejected read of the due set leaves without the
\* finally block
GetDue_flag_kept(c) ==
    /\ UNCHANGED nonSweepVars
    /\ Quiet
    /\ call[c].pc = "getDue"
    /\ \/ \E order \in Orderings(DueSet(now)) :
               call' = [call EXCEPT ![c].pc = "loop", ![c].idx = 1,
                          ![c].due = [i \in 1..Len(order) |-> Snapshot(order[i])]]
       \/ call' = [call EXCEPT ![c].pc = "returned", ![c].threw = TRUE]
    /\ UNCHANGED <<now, schedule, isRunning, sweeps, nExec>>

\* await getDueSchedules(): the due set, or a rejection that leaves through
\* the outer catch and the finally block
GetDue(c) ==
    /\ UNCHANGED nonSweepVars
    /\ Quiet
    /\ call[c].pc = "getDue"
    /\ \/ /\ \E order \in Orderings(DueSet(now)) :
               call' = [call EXCEPT ![c].pc = "loop", ![c].idx = 1,
                          ![c].due = [i \in 1..Len(order) |-> Snapshot(order[i])]]
          /\ UNCHANGED isRunning
       \/ /\ call' = [call EXCEPT ![c].pc = "returned", ![c].threw = TRUE]
          /\ isRunning' = FALSE
    /\ UNCHANGED <<now, schedule, sweeps, nExec>>

\* the loop is exhausted: return results, finally clears the flag
Finish(c) ==
    /\ UNCHANGED nonSweepVars
    /\ Quiet
    /\ call[c].pc = "loop"
    /\ call[c].idx > Len(call[c].due)
    /\ call' = [call EXCEPT ![c].pc = "returned"]
    /\ isRunning' = FALSE
    /\ UNCHANGED <<now, schedule, sweeps, nExec>>

\* Plausible slip: an execution that throws ends the loop
ExecuteThrew_abort(c, id) ==
    call' = [call EXCEPT ![c].results = Append(@, Failed(id)),
                            ![c].idx = Len(call[c].due) + 1,
                            ![c].faulty = @ \cup {id}]

\* catch of the per-schedule try, reached from executeSchedule
ExecuteThrew(c, id) ==
    call' = [call EXCEPT ![c].results = Append(@, Failed(id)),
                            ![c].idx = @ + 1,
                            ![c].faulty = @ \cup {id}]

\* one loop iteration up to the call of updateScheduleAfterExecution
Execute(c) ==
    /\ UNCHANGED nonSweepVars
    /\ Quiet
    /\ call[c].pc = "loop"
    /\ call[c].idx <= Len(call[c].due)
    /\ LET snap == call[c].due[call[c].idx] IN
       \E r \in Outcomes(snap) :
         /\ nExec' = [nExec EXCEPT ![snap.id] = @ + 1]
         /\ IF r.threw
            THEN ExecuteThrew(c, snap.id)
            ELSE /\ call' = [call EXCEPT
                       ![c].results = Append(@, r.result),
                       ![c].pc = "update",
                       ![c].faulty = IF r.result.success THEN @ ELSE @ \cup {snap.id}]
    /\ UNCHANGED <<now, schedule, isRunning, sweeps>>

\* await updateScheduleAfterExecution: the row is written, or the write
\* rejects and the per-schedule catch adds a failed result
Update(c) ==
    /\ UNCHANGED nonSweepVars
    /\ Quiet
    /\ call[c].pc = "update"
    /\ LET snap == call[c].due[call[c].idx]
           res == call[c].results[Len(call[c].results)]
       IN  \/ /\ schedule' = [schedule EXCEPT ![snap.id] =
                     updateScheduleAfterExecution(@, snap, res.success, now)]
              /\ call' = [call EXCEPT ![c].pc = "loop", ![c].idx = @ + 1,
                                      ![c].booked = Append(@, snap.id)]
           \/ /\ call' = [call EXCEPT ![c].pc = "loop", ![c].idx = @ + 1,
                                      ![c].results = Append(@, Failed(snap.id)),
                                      ![c].faulty = @ \cup {snap.id}]
              /\ UNCHANGED schedule
    /\ UNCHANGED <<now, isRunning, sweeps, nExec>>

\* the entry point hands its answer to its caller and can be triggered again
Respond(c) ==
    /\ UNCHANGED nonSweepVars
    /\ call[c].pc = "returned"
    /\ call' = [call EXCEPT ![c] = IdleCall]
    /\ UNCHANGED <<now, schedule, isRunning, sweeps, nExec>>

\* ------------------------------------------------------------------------
\* Properties of the schedule execution
\* ------------------------------------------------------------------------
\* a call of executeSchedules that ran its loop to the end and returned
Completed(c) ==
    /\ call[c].pc = "returned"
    /\ call[c].entered
    /\ ~call[c].skipped
    /\ ~call[c].threw

Occurrences(seq, x) == Cardinality({i \in 1..Len(seq) : seq[i] = x})

ResultsFor(c, id) == {j \in 1..Len(call[c].results) : call[c].results[j].scheduleId = id}

\* C1: at most one sweep is in progress; the flag is set exactly while a
\* sweep is in progress, so a call arriving meanwhile does not clear it; that
\* call returns an empty result without reading or executing anything and
\* leaves nothing behind that would run later.
C1_AtMostOneSweep ==
    /\ Cardinality({c \in Callers : Sweeping(c)}) <= 1
    /\ isRunning <=> (\E c \in Callers : Sweeping(c))
    /\ \A c \in Callers :
         call[c].skipped =>
            /\ call[c].pc = "returned"
            /\ call[c].results = <<>>
            /\ call[c].due = <<>>
            /\ call[c].booked = <<>>
            /\ isRunning

\* a manual trigger was skipped while the sweep of another entry point is
\* between executeSchedule and the schedule update
C1_Witness ==
    \E c, d \in Callers :
        /\ c # d
        /\ call[c].skipped
        /\ call[d].pc = "update"

\* C2: when a sweep has returned, every schedule of its due set had its
\* bookkeeping written exactly once (lastRun set, runCount + 1) and is either
\* deactivated (once) or has a later nextRun, so that no later sweep finds it
\* due for the same instant.
C2_BookkeepingOncePerSchedule ==
    \A c \in Callers :
        Completed(c) =>
            \A i \in 1..Len(call[c].due) :
                LET snap == call[c].due[i]
                    row == schedule[snap.id]
                IN  /\ Occurrences(call[c].booked, snap.id) = 1
                    /\ row.runCount = snap.runCount + 1
                    /\ row.lastRun # Null
                    /\ IF snap.frequency = "once"
                       THEN ~row.isActive
                       ELSE row.nextRun > snap.nextRun

\* C3: every step that ends one execution of a daily, weekly or monthly
\* schedule leaves runCount equal to the number of executions so far and
\* lastRun equal to the instant of that step.
C3_RunCountEqualsExecutions ==
    [][\A c \in Callers :
          (call[c].pc \in {"loop", "update"} /\ call'[c].idx = call[c].idx + 1) =>
             LET snap == call[c].due[call[c].idx] IN
             snap.frequency \in Recurring =>
                /\ schedule'[snap.id].runCount = nExec'[snap.id]
                /\ schedule'[snap.id].lastRun = now]_vars

\* C4: a once schedule is executed at most once, and once its execution has
\* ended it is inactive.
C4_OnceExecutedAtMostOnce ==
    \A s \in Sched :
        schedule[s].frequency = "once" =>
            /\ nExec[s] <= 1
            /\ (nExec[s] = 1 /\ (\A c \in Callers : ~Sweeping(c))) => ~schedule[s].isActive

\* C5: when a sweep has returned, every schedule of its due set was executed
\* (it has a result), a failed result belongs to a schedule for which a call
\* rejected, and a schedule for which none rejected has exactly one result,
\* a successful one.
C5_FailureIsolated ==
    \A c \in Callers :
        Completed(c) =>
            /\ \A i \in 1..Len(call[c].due) : ResultsFor(c, call[c].due[i].id) # {}
            /\ \A j \in 1..Len(call[c].results) :
                 ~call[c].results[j].success =>
                    call[c].results[j].scheduleId \in call[c].faulty
            /\ \A i \in 1..Len(call[c].due) :
                 call[c].due[i].id \notin call[c].faulty =>
                    /\ Cardinality(ResultsFor(c, call[c].due[i].id)) = 1
                    /\ \A j \in ResultsFor(c, call[c].due[i].id) : call[c].results[j].success

\* a returned sweep of two schedules: the first threw, the second succeeded
C5_Witness ==
    \E c \in Callers :
        /\ Completed(c)
        /\ Len(call[c].due) = 2
        /\ Len(call[c].results) = 2
        /\ ~call[c].results[1].success
        /\ call[c].booked = <<call[c].due[2].id>>
        /\ call[c].results[2].success

\* the steps by which a call of executeSchedules goes on and returns: each
\* awaited promise settles
\* C26: the results a sweep returns have one entry per schedule of its due
\* set, in the order of the due set, which is by nextRun ascending.
C26_OneResultPerDueSchedule ==
    \A c \in Callers :
        Completed(c) =>
            /\ Len(call[c].results) = Len(call[c].due)
            /\ \A i \in DOMAIN call[c].due :
                /\ i \in DOMAIN call[c].results
                /\ call[c].results[i].scheduleId = call[c].due[i].id
            /\ \A i, j \in DOMAIN call[c].due :
                i < j => call[c].due[i].nextRun <= call[c].due[j].nextRun

SweepStep ==
    \E c \in Callers :
        GetDue(c) \/ Execute(c) \/ Update(c) \/ Finish(c) \/ Respond(c)

\* C15: every sweep that starts returns the run-state flag to false, whatever
\* the executions come to and also when the due set cannot be read; with no
\* sweep in progress the flag is false, so a finished sweep blocks no trigger.
C15_SweepReturnsToIdle ==
    /\ isRunning ~> ~isRunning
    /\ []((\A c \in Callers : ~Sweeping(c)) => ~isRunning)

\* a sweep whose read of the due set was rejected has returned and the flag
\* is false
C15_Witness ==
    \E c \in Callers :
        /\ call[c].pc = "returned"
        /\ call[c].entered
        /\ call[c].threw
        /\ ~isRunning

\* ------------------------------------------------------------------------
\* Call-rate limiting: ApiRateLimiter.checkRateLimit
\* ------------------------------------------------------------------------
TicksPerHour == 2
MaxRlTime == 3
MaxCalls == 3
MaxLimit == 2

\* `${identifier}:${endpoint}:${method}`
Keys == {"k1", "k2"}
Requests == {"r1", "r2"}

\* 60 * 60 * 1000 ms
HourMs == TicksPerHour

NoRef == 0

IdleRequest ==
    [pc |-> "idle", key |-> "k1", at |-> 0, usage |-> NoRef, actualLimit |-> 0,
     allowed |-> FALSE, remaining |-> 0, window |-> 0, since |-> 0]

\* usage objects no variable refers to any more are dropped
Collect(h, cache, reqs) ==
    [o \in DOMAIN h |->
        IF (\E k \in Keys : cache[k] = o)
           \/ (\E r \in Requests : reqs[r].pc # "idle" /\ reqs[r].usage = o)
        THEN h[o] ELSE Null]

\* the global setting when there is one, else the endpoint's, else null
getCustomRateLimit(setting, endpointSetting) ==
    IF setting # NoSetting THEN parseInt(setting)
    ELSE IF endpointSetting # NoSetting THEN parseInt(endpointSetting)
    ELSE Null

\* customLimit || limitPerHour: null, NaN and 0 give way to the argument
ActualLimit(customLimit, arg) ==
    IF customLimit \in {Null, NaN, 0} THEN arg ELSE customLimit

\* const actualLimit = customLimit || limitPerHour, for a call on key k
ConfiguredLimit(k) ==
    ActualLimit(getCustomRateLimit(apiRateLimit, endpointRateLimit), limitPerHour[k])

\* Plausible slip: the limit itself is already refused
Allowed_strict(count, actualLimit) ==
    count < actualLimit

\* allowed = usage.count <= actualLimit
Allowed(count, actualLimit) ==
    count <= actualLimit

\* Math.max(0, actualLimit - usage.count)
Remaining(count, actualLimit) ==
    IF actualLimit - count > 0 THEN actualLimit - count ELSE 0

\* !usage || usage.reset < now
NeedsNewWindow(ref, n) ==
    ref = NoRef \/ heap[ref].reset < n

RlStart ==
    /\ rlNow = 0
    /\ usageCache = [k \in Keys |-> NoRef]
    /\ heap = [o \in 1..MaxCalls |-> Null]
    /\ rl = [r \in Requests |-> IdleRequest]
    /\ rlCalls = 0
    /\ limitPerHour \in {[k \in Keys |-> n] : n \in 1..MaxLimit}
    /\ apiRateLimit \in {NoSetting} \cup {NumberText(n) : n \in 0..MaxLimit}
    /\ endpointRateLimit \in {NoSetting, NumberText(MaxLimit)}
    /\ gReset = [k \in Keys |-> Null]
    /\ gCount = [k \in Keys |-> 0]
    /\ gAllowed = [k \in Keys |-> 0]
    /\ gDenials = [k \in Keys |-> 0]
    /\ apiUsageLog = 0
    /\ rlNotifications = <<>>

\* no request is about to hand its answer back
RlQuiet == \A r \in Requests : rl[r].pc # "done"

RlTick ==
    /\ UNCHANGED nonRlVars
    /\ RlQuiet
    /\ rlNow < MaxRlTime
    /\ rlNow' = rlNow + 1
    /\ UNCHANGED <<usageCache, heap, rl, rlCalls, rlConfig,
                   gReset, gCount, gAllowed, gDenials, rlLedger>>

\* checkRateLimit up to "await this.getCustomRateLimit(endpoint)": the cache
\* is read and, without an entry or with an expired one, a new usage object
\* is built that only this call refers to
CheckBegin(r, k) ==
    /\ UNCHANGED nonRlVars
    /\ RlQuiet
    /\ rl[r].pc = "idle"
    /\ rlCalls < MaxCalls
    /\ rlCalls' = rlCalls + 1
    /\ LET cached == usageCache[k]
           fresh == NeedsNewWindow(cached, rlNow)
           ref == IF fresh THEN rlCalls + 1 ELSE cached
           newHeap == IF fresh
                      THEN [heap EXCEPT ![ref] = [count |-> 0, reset |-> rlNow + HourMs]]
                      ELSE heap
           newWindow == gReset[k] = Null \/ rlNow > gReset[k]
           reqs == [rl EXCEPT ![r] = [IdleRequest EXCEPT !.pc = "limit", !.key = k,
                                       !.at = rlNow, !.usage = ref]]
       IN  /\ rl' = reqs
           /\ heap' = Collect(newHeap, usageCache, reqs)
           /\ gReset' = [gReset EXCEPT ![k] = IF newWindow THEN rlNow + HourMs ELSE @]
           /\ gCount' = [gCount EXCEPT ![k] = IF newWindow THEN 1 ELSE @ + 1]
           /\ gAllowed' = [gAllowed EXCEPT ![k] = IF newWindow THEN 0 ELSE @]
    /\ UNCHANGED <<rlNow, usageCache, rlConfig, gDenials, rlLedger>>

\* after the limit is known: usage.count++, usageCache.set(key, usage), then
\* "await this.recordApiUsage(...)"
CheckCount(r) ==
    /\ UNCHANGED nonRlVars
    /\ RlQuiet
    /\ rl[r].pc = "limit"
    /\ LET ref == rl[r].usage
           newHeap == [heap EXCEPT ![ref].count = @ + 1]
           cache == [usageCache EXCEPT ![rl[r].key] = ref]
           reqs == [rl EXCEPT ![r].pc = "record",
                      ![r].actualLimit = ConfiguredLimit(rl[r].key)]
       IN  /\ usageCache' = cache
           /\ rl' = reqs
           /\ heap' = Collect(newHeap, cache, reqs)
    /\ UNCHANGED <<rlNow, rlCalls, rlConfig, gReset, gCount,
                   gAllowed, gDenials, rlLedger>>

\* recordApiUsage has settled and the store has taken the row (were
\* adminLog.create rejected, the catch would log and the row be missing);
\* remaining and allowed are computed from the usage object as it is now; a
\* denial goes on to createRateLimitNotification, which asks for an unread
\* notification of the last hour
CheckAnswer(r) ==
    /\ UNCHANGED nonRlVars
    /\ RlQuiet
    /\ rl[r].pc = "record"
    /\ apiUsageLog' = apiUsageLog + 1
    /\ LET count == heap[rl[r].usage].count
           ok == Allowed(count, rl[r].actualLimit)
           reqs == [rl EXCEPT ![r].pc = IF ok THEN "done" ELSE "notify",
                              ![r].allowed = ok,
                              ![r].remaining = Remaining(count, rl[r].actualLimit),
                              ![r].window = gCount[rl[r].key],
                              ![r].since = rlNow - HourMs]
       IN  /\ rl' = reqs
           /\ heap' = Collect(heap, usageCache, reqs)
           /\ gAllowed' = [gAllowed EXCEPT ![rl[r].key] = IF ok THEN @ + 1 ELSE @]
           /\ gDenials' = [gDenials EXCEPT ![rl[r].key] = IF ok THEN @ ELSE @ + 1]
    /\ UNCHANGED <<rlNow, usageCache, rlCalls, rlConfig, gReset, gCount, rlNotifications>>

\* the where clause of createRateLimitNotification's findFirst
ExistingNotification(since) ==
    \E i \in DOMAIN rlNotifications : rlNotifications[i] >= since

\* findFirst has settled: with a notification found, or the query rejected,
\* the denial is returned; else notification.create is called
CheckNotify(r) ==
    /\ UNCHANGED nonRlVars
    /\ RlQuiet
    /\ rl[r].pc = "notify"
    /\ \E ok \in BOOLEAN :
         LET reqs == [rl EXCEPT ![r].pc =
                        IF ok /\ ~ExistingNotification(rl[r].since)
                        THEN "create" ELSE "done"]
         IN  /\ rl' = reqs
             /\ heap' = Collect(heap, usageCache, reqs)
    /\ UNCHANGED <<rlNow, usageCache, rlCalls, rlConfig,
                   gReset, gCount, gAllowed, gDenials, rlLedger>>

\* notification.create has settled, with the row or rejected; the denial
\* is returned
CheckCreate(r) ==
    /\ UNCHANGED nonRlVars
    /\ RlQuiet
    /\ rl[r].pc = "create"
    /\ \E ok \in BOOLEAN :
         rlNotifications' = IF ok THEN Append(rlNotifications, rlNow)
                            ELSE rlNotifications
    /\ LET reqs == [rl EXCEPT ![r].pc = "done"]
       IN  /\ rl' = reqs
           /\ heap' = Collect(heap, usageCache, reqs)
    /\ UNCHANGED <<rlNow, usageCache, rlCalls, rlConfig,
                   gReset, gCount, gAllowed, gDenials, apiUsageLog>>

\* the answer is handed to the caller
CheckReturn(r) ==
    /\ UNCHANGED nonRlVars
    /\ rl[r].pc = "done"
    /\ rl' = [rl EXCEPT ![r] = IdleRequest]
    /\ UNCHANGED <<rlNow, usageCache, heap, rlCalls, rlConfig,
                   gReset, gCount, gAllowed, gDenials, rlLedger>>

\* clearCache(): this.usageCache.clear(); nothing else is touched
ClearCache ==
    /\ UNCHANGED nonRlVars
    /\ RlQuiet
    /\ \E k \in Keys : usageCache[k] # NoRef
    /\ LET cache == [k \in Keys |-> NoRef]
       IN  /\ usageCache' = cache
           /\ heap' = Collect(heap, cache, rl)
    /\ UNCHANGED <<rlNow, rl, rlCalls, rlConfig, gReset, gCount, gAllowed, gDenials,
                   rlLedger>>

InFlight(r) == rl[r].pc \in {"limit", "record", "notify", "create"}

\* a call that begins while no other call is under way
CheckBeginAlone(r, k) ==
    /\ \A q \in Requests : ~InFlight(q)
    /\ CheckBegin(r, k)

\* C19: the notifications created for denied calls are more than one hour
\* apart, however the denied calls interleave.
C19_OneNotificationPerCooldown ==
    \A i, j \in DOMAIN rlNotifications :
        i < j => rlNotifications[j] > rlNotifications[i] + HourMs

\* C20: with the cache cleared at any moment, a key is still answered allowed
\* at most `limit` times within one hour window, the usage rows written
\* before the clearing being what the counters are rebuilt from.
C20_ClearKeepsLimit ==
    \A k \in Keys : gAllowed[k] <= ConfiguredLimit(k)

\* C22: the limit a call applies is the endpoint's configured limit when
\* there is one, else the global configured limit, else the limit the caller
\* passed.
C22_EndpointLimitFirst ==
    \A r \in Requests :
        rl[r].pc \in {"record", "notify", "create", "done"} =>
            rl[r].actualLimit =
                IF endpointRateLimit # NoSetting THEN parseInt(endpointRateLimit)
                ELSE IF apiRateLimit # NoSetting THEN parseInt(apiRateLimit)
                ELSE limitPerHour[rl[r].key]

\* C6: of the sequential calls on one key, a call is answered allowed exactly
\* when it is one of the first L calls of its window, a window being opened
\* by the first call ever and by the first call after the reset instant of the
\* window before has passed, and lasting one hour.
C6_FirstLAllowedPerWindow ==
    \A r \in Requests :
        rl[r].pc \in {"notify", "done"} =>
            /\ rl[r].window = gCount[rl[r].key]
            /\ rl[r].allowed <=> (rl[r].window <= rl[r].actualLimit)
            /\ rl[r].at <= gReset[rl[r].key]
            /\ rl[r].window = 1 => gReset[rl[r].key] = rl[r].at + HourMs

\* a call on a key that has been denied before is allowed again: it began
\* after the reset instant had passed and is the first call of a new window
C6_Witness ==
    \E r \in Requests :
        /\ rl[r].pc = "done"
        /\ rl[r].allowed
        /\ rl[r].window = 1
        /\ gDenials[rl[r].key] > 0

\* C7: when the calls on a key have all returned, the cached counter equals
\* the number of calls begun in the window and at most `limit` of them were
\* answered allowed.
C7_NoLostIncrement ==
    \A k \in Keys :
        (gCount[k] > 0 /\ \A r \in Requests : ~(InFlight(r) /\ rl[r].key = k)) =>
            /\ usageCache[k] # NoRef
            /\ heap[usageCache[k]].count = gCount[k]
            /\ gAllowed[k] <= ConfiguredLimit(k)

\* ------------------------------------------------------------------------
\* Next-run calculation applied to every base, frequency and "now"
\* ------------------------------------------------------------------------
NRStart ==
    /\ nrBase \in 0..MaxBase
    /\ nrFreq \in Frequencies
    /\ nrNow \in 0..MaxNow
    /\ nrResult = Null
    /\ nrRouteResult = Null
    /\ nrCreateResult = Null

NRCall ==
    /\ UNCHANGED nonNrVars
    /\ nrResult = Null
    /\ nrResult' = calculateNextRun(nrBase, nrFreq, nrNow)
    /\ nrRouteResult' = routeCalculateNextRun(nrBase, nrFreq, nrNow)
    /\ nrCreateResult' = createCalculateNextRun(nrBase, nrFreq, nrNow)
    /\ UNCHANGED <<nrBase, nrFreq, nrNow>>

\* the instants base + k recurrence steps, k = 0, 1, ..., up to the first one
\* after MaxNow; every step moves forward, so the later ones are larger still
RECURSIVE Recurrences(_, _)
Recurrences(t, frequency) ==
    IF t > MaxNow THEN {t} ELSE {t} \cup Recurrences(Step(t, frequency), frequency)

\* C10: for daily, weekly and monthly the calculation returns the smallest
\* instant base + k recurrence steps (k >= 0) that is strictly after "now".
C10_NextRunIsSmallestFutureStep ==
    (nrResult # Null /\ nrFreq \in Recurring) =>
        /\ nrResult \in Recurrences(nrBase, nrFreq)
        /\ nrResult > nrNow
        /\ \A t \in Recurrences(nrBase, nrFreq) : t > nrNow => nrResult <= t

\* a monthly base on the 31st that is at least two steps in the past
C10_Witness ==
    /\ nrResult # Null
    /\ nrFreq = "monthly"
    /\ getDate(nrBase) = 31
    /\ Step(nrBase, nrFreq) <= nrNow

\* C11: for frequency once the calculation, in the executor and in the
\* schedule routes alike, returns the base instant unchanged whatever "now".
C11_OnceReturnsBase ==
    (nrResult # Null /\ nrFreq = "once") =>
        /\ nrResult = nrBase
        /\ nrRouteResult = nrBase

\* a one-shot base that is already in the past has been calculated
C11_Witness ==
    /\ nrResult # Null
    /\ nrFreq = "once"
    /\ nrBase < nrNow

\* C27: the calculation of the create route returns the same instant as the
\* executor's and the schedule routes', for every base, frequency and "now";
\* for daily, weekly and monthly that instant is strictly after "now".
C27_CreateAgreesWithExecutor ==
    nrResult # Null =>
        /\ nrCreateResult = nrResult
        /\ nrCreateResult = nrRouteResult
        /\ nrFreq \in Recurring => nrCreateResult > nrNow

\* ------------------------------------------------------------------------
\* Daily token budget: ApiRateLimiter.trackTokenUsage
\* ------------------------------------------------------------------------
MaxTkTime == 1
MaxGenerations == 1
MaxChecks == 2

\* setting ? parseInt(setting.value) : 50000
DefaultMaxTokens == 50000

\* texts of the max_tokens_per_day setting
BudgetTexts == {NumberText(5), NumberText(10)}

\* token counts of a request and of a generation
TokenAmounts == {1, 4, 5, 40000}

RECURSIVE SumTokens(_)
SumTokens(rows) ==
    IF rows = <<>> THEN 0 ELSE Head(rows).tokensUsed + SumTokens(Tail(rows))

\* today.setHours(0, 0, 0, 0)
StartOfDay(t) == t - (t % TicksPerDay)

\* aIGeneration.aggregate with createdAt >= today, _sum.tokensUsed; a null
\* sum counts as 0
TodayUsage(today) ==
    SumTokens(SelectSeq(generations, LAMBDA g : g.createdAt >= today))

\* the budget a check works with
MaxTokens(setting) ==
    IF setting # NoSetting THEN parseInt(setting) ELSE DefaultMaxTokens

\* Plausible slip: a total equal to the budget is refused
OverBudget_at_budget(newTotal, maxTokens) ==
    maxTokens # NaN /\ newTotal >= maxTokens

\* newTotal > maxTokensPerDay
OverBudget(newTotal, maxTokens) ==
    maxTokens # NaN /\ newTotal > maxTokens

\* currentUsage < maxTokensPerDay * 0.8 && newTotal >= maxTokensPerDay * 0.8
CrossesWarning(currentUsage, newTotal, maxTokens) ==
    /\ maxTokens # NaN
    /\ currentUsage * 10 < maxTokens * 8
    /\ newTotal * 10 >= maxTokens * 8

\* spend is the user's recorded spend of the day at the call's latest store
\* access; failed tells that one of its store accesses was rejected
IdleTrack ==
    [pc |-> "idle", tokens |-> 0, maxTokens |-> 0, today |-> 0, currentUsage |-> 0,
     spend |-> 0, failed |-> FALSE, result |-> FALSE]

TkStart ==
    /\ tkNow = 0
    /\ maxTokensPerDay \in {NoSetting} \cup BudgetTexts
    /\ generations = <<>>
    /\ notifications = <<>>
    /\ tk = IdleTrack
    /\ tkChecks = 0

\* the call is not about to hand its answer back
TkQuiet == tk.pc # "done"

TkTick ==
    /\ UNCHANGED nonTkVars
    /\ TkQuiet
    /\ tkNow < MaxTkTime
    /\ tkNow' = tkNow + 1
    /\ UNCHANGED <<maxTokensPerDay, generations, notifications, tk, tkChecks>>

\* a generation is recorded with the tokens it used
Generate(n) ==
    /\ UNCHANGED nonTkVars
    /\ TkQuiet
    /\ Len(generations) < MaxGenerations
    /\ generations' = Append(generations, [createdAt |-> tkNow, tokensUsed |-> n])
    /\ UNCHANGED <<tkNow, maxTokensPerDay, notifications, tk, tkChecks>>

\* trackTokenUsage(userId, tokens) up to "await systemSettings.findUnique"
TrackBegin(tokens) ==
    /\ UNCHANGED nonTkVars
    /\ tk.pc = "idle"
    /\ tkChecks < MaxChecks
    /\ tkChecks' = tkChecks + 1
    /\ tk' = [IdleTrack EXCEPT !.pc = "setting", !.tokens = tokens]
    /\ UNCHANGED <<tkNow, maxTokensPerDay, generations, notifications>>

\* the setting is read: the budget and the start of today are fixed and the
\* day's spend is asked for; a rejected read ends in the catch, which
\* returns true
TrackSetting ==
    /\ UNCHANGED nonTkVars
    /\ tk.pc = "setting"
    /\ \E ok \in BOOLEAN :
        tk' = IF ok
              THEN [tk EXCEPT !.pc = "usage",
                              !.maxTokens = MaxTokens(maxTokensPerDay),
                              !.today = StartOfDay(tkNow),
                              !.spend = TodayUsage(StartOfDay(tkNow))]
              ELSE [tk EXCEPT !.pc = "done", !.failed = TRUE, !.result = TRUE,
                              !.spend = TodayUsage(StartOfDay(tkNow))]
    /\ UNCHANGED <<tkNow, maxTokensPerDay, generations, notifications, tkChecks>>

\* the day's spend is read: over the budget goes on to the error
\* notification, crossing 80% to the warning notification, anything else
\* returns true
TrackUsage ==
    /\ UNCHANGED nonTkVars
    /\ tk.pc = "usage"
    /\ \E ok \in BOOLEAN :
        LET currentUsage == TodayUsage(tk.today)
            newTotal == currentUsage + tk.tokens
        IN  tk' = IF ~ok
                  THEN [tk EXCEPT !.pc = "done", !.failed = TRUE, !.result = TRUE,
                                  !.spend = currentUsage]
                  ELSE IF OverBudget(newTotal, tk.maxTokens)
                  THEN [tk EXCEPT !.pc = "deny", !.currentUsage = currentUsage,
                                  !.spend = currentUsage]
                  ELSE IF CrossesWarning(currentUsage, newTotal, tk.maxTokens)
                  THEN [tk EXCEPT !.pc = "warn", !.currentUsage = currentUsage,
                                  !.spend = currentUsage]
                  ELSE [tk EXCEPT !.pc = "done", !.currentUsage = currentUsage,
                                  !.spend = currentUsage, !.result = TRUE]
    /\ UNCHANGED <<tkNow, maxTokensPerDay, generations, notifications, tkChecks>>

\* notification.create of type 'error', then return false; a rejected write
\* ends in the catch, which returns true
TrackDeny ==
    /\ UNCHANGED nonTkVars
    /\ tk.pc = "deny"
    /\ \E ok \in BOOLEAN :
        IF ok
        THEN /\ notifications' = Append(notifications,
                                        [type |-> "error", createdAt |-> tkNow])
             /\ tk' = [tk EXCEPT !.pc = "done", !.result = FALSE]
        ELSE /\ notifications' = notifications
             /\ tk' = [tk EXCEPT !.pc = "done", !.failed = TRUE, !.result = TRUE]
    /\ UNCHANGED <<tkNow, maxTokensPerDay, generations, tkChecks>>

\* notification.create of type 'warning', then return true; the catch
\* returns true as well
TrackWarn ==
    /\ UNCHANGED nonTkVars
    /\ tk.pc = "warn"
    /\ \E ok \in BOOLEAN :
        IF ok
        THEN /\ notifications' = Append(notifications,
                                        [type |-> "warning", createdAt |-> tkNow])
             /\ tk' = [tk EXCEPT !.pc = "done", !.result = TRUE]
        ELSE /\ notifications' = notifications
             /\ tk' = [tk EXCEPT !.pc = "done", !.failed = TRUE, !.result = TRUE]
    /\ UNCHANGED <<tkNow, maxTokensPerDay, generations, tkChecks>>

\* the answer is handed to the caller
TrackReturn ==
    /\ UNCHANGED nonTkVars
    /\ tk.pc = "done"
    /\ tk' = IdleTrack
    /\ UNCHANGED <<tkNow, maxTokensPerDay, generations, notifications, tkChecks>>

\* the configured daily budget, 50000 without the setting
Budget == MaxTokens(maxTokensPerDay)

\* C8: the call returns true exactly when the user's recorded spend of today
\* plus the requested tokens is at most the configured daily budget.
C8_AllowedExactlyWithinBudget ==
    tk.pc = "done" => (tk.result <=> (tk.spend + tk.tokens <= Budget))

\* C8, amended: when every store access of the call succeeds it returns true
\* exactly when today's recorded spend plus the requested tokens is at most
\* the budget; when one of them is rejected it returns true.
C8_AllowedWithinBudgetWhenStoreAnswers ==
    tk.pc = "done" =>
        IF tk.failed
        THEN tk.result
        ELSE tk.result <=> (tk.spend + tk.tokens <= Budget)

\* with spend already recorded today, a request that brings the total to
\* exactly the budget has been allowed
C8_Witness ==
    /\ tk.pc = "done"
    /\ ~tk.failed
    /\ tk.spend > 0
    /\ tk.spend + tk.tokens = Budget
    /\ tk.result

\* the warning notifications created on the day that starts at d
WarningsOn(d) ==
    {i \in DOMAIN notifications :
        /\ notifications[i].type = "warning"
        /\ StartOfDay(notifications[i].createdAt) = d}

\* C18: once no check is under way, the usage log holds one row per check
\* made, call-rate checks and token-budget checks together.
C18_OneRecordPerCheck ==
    (tk.pc = "idle" /\ \A r \in Requests : rl[r].pc = "idle") =>
        apiUsageLog = rlCalls + tkChecks

\* C9: on no day is more than one 80% warning notification created.
C9_WarningOncePerDay ==
    \A d \in 0..MaxTkTime : Cardinality(WarningsOn(d)) <= 1

\* ------------------------------------------------------------------------
\* One loop iteration of executeSchedules, with the rows and calls it makes
\* ------------------------------------------------------------------------
\* the instants at which the iteration runs
PxTimes == {0, 1, 2}

\* snap: the row as getDueSchedules read it; F: the calls that reject;
\* posts: the Post rows the execution wrote; results: what the iteration
\* pushed; booked: updateScheduleAfterExecution wrote the row
\* the maintenance_mode and scheduled_maintenance settings a run works
\* under; scheduled holds the parsed window, or nothing without the setting
MaintenanceSettings ==
    {[mode |-> m, scheduled |-> w] :
        m \in {"true", "false"}, w \in {<<>>, <<[start |-> 1, end |-> 1]>>}}

\* checkMaintenanceMode: the flag is 'true', or now lies in the scheduled
\* window
IsMaintenanceMode(settings, n) ==
    \/ settings.mode = "true"
    \/ /\ settings.scheduled # <<>>
       /\ n >= settings.scheduled[1].start
       /\ n <= settings.scheduled[1].end

\* calls: the service calls the execution attempted; exhausted: the user's
\* spend of the day had reached the budget when the execution began
IdleIteration ==
    [pc |-> "idle", snap |-> Null, F |-> {}, posts |-> <<>>, results |-> <<>>,
     booked |-> FALSE, calls |-> {}, exhausted |-> FALSE]

\* today's spend of the user has reached the daily budget
BudgetExhausted(n) ==
    TodayUsage(StartOfDay(n)) >= MaxTokens(maxTokensPerDay)

PxStart ==
    /\ pxNow \in PxTimes
    /\ pxSchedule \in {r \in NewRows : r.time = 0}
    /\ px = IdleIteration
    /\ maintenance \in MaintenanceSettings
    /\ tkNow = pxNow
    /\ maxTokensPerDay \in {NoSetting} \cup BudgetTexts
    /\ generations \in {<<>>} \cup
                       {<<[createdAt |-> pxNow, tokensUsed |-> n]>> : n \in TokenAmounts}
    /\ notifications = <<>>
    /\ tk = IdleTrack
    /\ tkChecks = 0

\* getDueSchedules has selected the row
PxSelect ==
    /\ UNCHANGED nonPxVars
    /\ px.pc = "idle"
    /\ IsDue(pxSchedule, pxNow)
    /\ px' = [px EXCEPT !.pc = "execute", !.snap = [id |-> "s1"] @@ pxSchedule]
    /\ UNCHANGED <<pxNow, pxSchedule, generations, maintenance>>

\* await this.executeSchedule(schedule), results.push(result)
PxExecute ==
    /\ UNCHANGED nonPxVars
    /\ px.pc = "execute"
    /\ \E F \in SUBSET RelevantSites(px.snap.name) :
        LET run == runPipeline(px.snap, F)
            r == executeSchedule(px.snap, F)
        IN  /\ px' = [px EXCEPT !.pc = IF r.threw THEN "done" ELSE "update",
                                !.F = F,
                                !.posts = run.posts,
                                !.results = <<r.result>>,
                                !.calls = ServiceCalls(px.snap),
                                !.exhausted = BudgetExhausted(pxNow)]
            /\ IF GenerationRecorded(px.snap, F)
               THEN \E n \in TokenAmounts :
                       generations' = Append(generations,
                                             [createdAt |-> pxNow, tokensUsed |-> n])
               ELSE UNCHANGED generations
    /\ UNCHANGED <<pxNow, pxSchedule, maintenance>>

\* await this.updateScheduleAfterExecution(schedule, result.success), or
\* the per-schedule catch when the write rejects
PxUpdate ==
    /\ UNCHANGED nonPxVars
    /\ px.pc = "update"
    /\ \/ /\ pxSchedule' = updateScheduleAfterExecution(pxSchedule, px.snap,
                                                        px.results[1].success, pxNow)
          /\ px' = [px EXCEPT !.pc = "done", !.booked = TRUE]
       \/ /\ px' = [px EXCEPT !.pc = "done",
                              !.results = Append(@, Failed(px.snap.id))]
          /\ UNCHANGED pxSchedule
    /\ UNCHANGED <<pxNow, generations, maintenance>>

\* the publish step of the n-th createAndPostContent of the execution
\* failed: its Post was created and the write of the publish outcome rejected
PublishFailed(n) ==
    /\ CreateSite[n] \notin px.F
    /\ UpdateSite[n] \in px.F

\* the first createAndPostContent of the execution was reached for every
\* pipeline but the AI one whose generation failed
Reached(n) ==
    IF n = 1
    THEN ~(px.snap.name = "ai" /\ ({"gen", "aigen"} \cap px.F # {}))
    ELSE px.snap.name = "ai" /\ px.F \cap {"gen", "aigen", "create1", "update1", "log1"} # {}

\* C12: when the publish step of an execution fails, its Post ends with
\* status failed, the result says success = false, and the schedule's
\* runCount and nextRun still advance.
C12_PublishFailureMarksPostFailed ==
    (px.pc = "done" /\ Reached(1) /\ PublishFailed(1)) =>
        /\ px.posts[1].status = "failed"
        /\ \A i \in DOMAIN px.results : ~px.results[i].success
        /\ pxSchedule.runCount = px.snap.runCount + 1
        /\ px.snap.frequency \in Recurring => pxSchedule.nextRun > px.snap.nextRun

\* C13: with the user's daily token budget exhausted, an execution that
\* needs generated content consults the token-budget check, does not call
\* the generation service, uses the template content and attempts to publish.
C13_ExhaustedBudgetFallsBack ==
    (px.pc \in {"update", "done"} /\ px.snap.name = "ai" /\ px.exhausted) =>
        /\ "trackTokenUsage" \in px.calls
        /\ "generateContent" \notin px.calls
        /\ \A i \in DOMAIN px.posts : px.posts[i].type = "fallback_post"
        /\ Reached(2)

\* C14: while the system is in maintenance mode no schedule is executed:
\* no pipeline step that calls a service is attempted and no Post is written.
C14_NoExecutionInMaintenance ==
    IsMaintenanceMode(maintenance, pxNow) =>
        /\ px.calls = {}
        /\ px.posts = <<>>

\* ------------------------------------------------------------------------
\* BackgroundWorker: start, stop and the interval timer
\* ------------------------------------------------------------------------
MaxStarts == 2

\* private checkInterval: number = 60000
DefaultCheckInterval == 60000

\* the floor of setCheckInterval
MinCheckInterval == 30000

\* the clock ticks once per default interval
NowMs == now * DefaultCheckInterval

\* setInterval(callback, every) called at instant n
NewTimer(id, every, n) == [id |-> id, every |-> every, fireAt |-> n + every]

WorkerStart0 ==
    /\ workerIsRunning = FALSE
    /\ intervalId = Null
    /\ checkInterval = DefaultCheckInterval
    /\ timers = {}
    /\ pendingChecks = 0
    /\ timersCreated = 0
    /\ startedAt = Null
    /\ checksSinceStart = 0
    /\ setCalls = 0
    /\ lastSet = [arg |-> 0, threw |-> FALSE]

\* Plausible slip: start without the test of isRunning
WorkerStart_unguarded ==
    /\ UNCHANGED nonBwVars
    /\ timersCreated < MaxStarts
    /\ sweeps < MaxSweeps
    /\ workerIsRunning' = TRUE
    /\ pendingChecks' = pendingChecks + 1
    /\ timersCreated' = timersCreated + 1
    /\ intervalId' = timersCreated + 1
    /\ timers' = timers \cup {NewTimer(timersCreated + 1, checkInterval, NowMs)}
    /\ startedAt' = NowMs
    /\ checksSinceStart' = 1
    /\ sweeps' = sweeps + 1
    /\ UNCHANGED <<checkInterval, setCalls, lastSet>>
    /\ UNCHANGED <<now, schedule, isRunning, call, nExec>>

\* start(): nothing when already running; else the flag is set, executeCheck
\* is called at once (it runs up to its count query) and the timer is set
WorkerStart ==
    /\ UNCHANGED nonBwVars
    /\ timersCreated < MaxStarts
    /\ sweeps < MaxSweeps
    /\ IF workerIsRunning
       THEN UNCHANGED <<bwVars, sweeps>>
       ELSE /\ workerIsRunning' = TRUE
            /\ pendingChecks' = pendingChecks + 1
            /\ timersCreated' = timersCreated + 1
            /\ intervalId' = timersCreated + 1
            /\ timers' = timers \cup {NewTimer(timersCreated + 1, checkInterval, NowMs)}
            /\ startedAt' = NowMs
            /\ checksSinceStart' = 1
            /\ sweeps' = sweeps + 1
            /\ UNCHANGED <<checkInterval, setCalls, lastSet>>
    /\ UNCHANGED <<now, schedule, isRunning, call, nExec>>

\* Plausible slip: stop without clearInterval
WorkerStop_timer_kept ==
    /\ UNCHANGED nonBwVars
    /\ workerIsRunning' = FALSE
    /\ intervalId' = Null
    /\ UNCHANGED <<timers, checkInterval, pendingChecks, timersCreated, startedAt,
                   checksSinceStart, setCalls, lastSet>>
    /\ UNCHANGED sweepVars

\* stop(): clearInterval(this.intervalId), the flag is cleared; the
\* executor is not touched
WorkerStop ==
    /\ UNCHANGED nonBwVars
    /\ timers' = {t \in timers : t.id # intervalId}
    /\ intervalId' = Null
    /\ workerIsRunning' = FALSE
    /\ UNCHANGED <<checkInterval, pendingChecks, timersCreated, startedAt,
                   checksSinceStart, setCalls, lastSet>>
    /\ UNCHANGED sweepVars

\* a timer that is set fires: executeCheck is called and the timer is due
\* again one interval later
WorkerTimerFire ==
    /\ UNCHANGED nonBwVars
    /\ sweeps < MaxSweeps
    /\ \E t \in timers :
        /\ t.fireAt <= NowMs
        /\ timers' = (timers \ {t}) \cup {[t EXCEPT !.fireAt = @ + t.every]}
    /\ pendingChecks' = pendingChecks + 1
    /\ checksSinceStart' = checksSinceStart + 1
    /\ sweeps' = sweeps + 1
    /\ UNCHANGED <<workerIsRunning, intervalId, checkInterval, timersCreated, startedAt,
                   setCalls, lastSet>>
    /\ UNCHANGED <<now, schedule, isRunning, call, nExec>>

\* executeCheck after its count: return when nothing is due (or the count
\* rejects), else call executeSchedules, which returns [] at its guard when
\* a sweep is in progress
WorkerCount ==
    /\ UNCHANGED nonBwVars
    /\ Quiet
    /\ pendingChecks > 0
    /\ pendingChecks' = pendingChecks - 1
    /\ \E countOk \in BOOLEAN :
         IF countOk /\ DueSet(now) # {} /\ ~isRunning
         THEN /\ call["timer"].pc = "idle"
              /\ executeSchedulesEntry("timer")
         ELSE UNCHANGED <<call, isRunning>>
    /\ UNCHANGED <<workerIsRunning, intervalId, checkInterval, timers, timersCreated,
                   startedAt, checksSinceStart, setCalls, lastSet>>
    /\ UNCHANGED <<now, schedule, sweeps, nExec>>

\* the clock advances once the timers that are due have fired
WorkerTick ==
    /\ \A t \in timers : t.fireAt > NowMs
    /\ Tick

MaxSets == 2

\* the values setCheckInterval is called with: just below the floor, the
\* floor itself, twice the default
IntervalInputs == {MinCheckInterval - 1, MinCheckInterval, 2 * DefaultCheckInterval}

\* Plausible slip: the floor itself is refused
BelowFloor_inclusive(intervalMs) == intervalMs <= MinCheckInterval

\* if (intervalMs < 30000) throw
BelowFloor(intervalMs) == intervalMs < MinCheckInterval

\* Plausible slip: the running worker is started again without being stopped
\* first, and start returns at its test of the flag
SetCheckInterval_no_stop(intervalMs) ==
    /\ UNCHANGED nonBwVars
    /\ setCalls < MaxSets
    /\ setCalls' = setCalls + 1
    /\ lastSet' = [arg |-> intervalMs, threw |-> BelowFloor(intervalMs)]
    /\ checkInterval' = IF BelowFloor(intervalMs) THEN checkInterval ELSE intervalMs
    /\ UNCHANGED <<workerIsRunning, intervalId, timers, pendingChecks,
                   timersCreated, startedAt, checksSinceStart>>
    /\ UNCHANGED sweepVars

\* setCheckInterval(intervalMs): throw below the floor; else the interval is
\* stored and a running worker is stopped and started, which clears its
\* timer, calls executeCheck at once and sets a timer with the new interval
SetCheckInterval(intervalMs) ==
    /\ UNCHANGED nonBwVars
    /\ setCalls < MaxSets
    /\ setCalls' = setCalls + 1
    /\ lastSet' = [arg |-> intervalMs, threw |-> BelowFloor(intervalMs)]
    /\ IF BelowFloor(intervalMs)
       THEN UNCHANGED <<workerIsRunning, intervalId, checkInterval, timers,
                        pendingChecks, timersCreated, startedAt, checksSinceStart,
                        sweeps>>
       ELSE /\ checkInterval' = intervalMs
            /\ IF workerIsRunning
               THEN /\ timersCreated < MaxStarts
                    /\ sweeps < MaxSweeps
                    /\ timers' = {t \in timers : t.id # intervalId}
                                   \cup {NewTimer(timersCreated + 1, intervalMs, NowMs)}
                    /\ intervalId' = timersCreated + 1
                    /\ timersCreated' = timersCreated + 1
                    /\ pendingChecks' = pendingChecks + 1
                    /\ startedAt' = NowMs
                    /\ checksSinceStart' = 1
                    /\ sweeps' = sweeps + 1
                    /\ UNCHANGED workerIsRunning
               ELSE UNCHANGED <<workerIsRunning, intervalId, timers, pendingChecks,
                                timersCreated, startedAt, checksSinceStart, sweeps>>
    /\ UNCHANGED <<now, schedule, isRunning, call, nExec>>

\* C24: a setCheckInterval below 30 seconds throws and leaves the interval,
\* the running flag and the timers as they were; one of 30 seconds or more
\* does not throw, is stored as the interval, and every timer that is set
\* afterwards has it as its period.
C24_IntervalFloor ==
    /\ [][setCalls' = setCalls + 1 =>
            IF lastSet'.arg < MinCheckInterval
            THEN /\ lastSet'.threw
                 /\ UNCHANGED <<checkInterval, workerIsRunning, intervalId, timers>>
            ELSE /\ ~lastSet'.threw
                 /\ checkInterval' = lastSet'.arg
                 /\ \A t \in timers' : t.every = lastSet'.arg]_vars
    /\ [][\A t \in timers' : t \notin timers => t.every = checkInterval']_vars

\* a running worker has taken the floor value as its interval and has then
\* refused a value below the floor
C24_Witness ==
    /\ setCalls = 2
    /\ lastSet.threw
    /\ workerIsRunning
    /\ checkInterval = MinCheckInterval
    /\ \E t \in timers : t.every = MinCheckInterval

\* C29: at most one timer is set, one is set exactly when the worker reports
\* isRunning, and the timer of a running worker has the current interval as
\* its period.
C29_OneTimerWhenRunning ==
    /\ Cardinality(timers) <= 1
    /\ workerIsRunning <=> timers # {}
    /\ \A t \in timers : t.id = intervalId /\ t.every = checkInterval

\* a worker is running on its second timer with an interval that
\* setCheckInterval has stored
C29_Witness ==
    /\ workerIsRunning
    /\ timersCreated = 2
    /\ setCalls > 0
    /\ ~lastSet.threw
    /\ checkInterval # DefaultCheckInterval

\* C16: a start that takes effect calls executeCheck once at once and sets
\* one timer, which then calls it once per interval; a start on a running
\* worker changes nothing, so a running worker has exactly one timer and has
\* begun one check at its start and one per interval elapsed since.
C16_OneCheckAtStartThenPerInterval ==
    workerIsRunning =>
        /\ Cardinality(timers) = 1
        /\ \A t \in timers :
            /\ t.id = intervalId
            /\ t.fireAt = startedAt + checksSinceStart * checkInterval
        /\ checksSinceStart >= 1

\* the worker was started, its timer has fired once and a further start was
\* called on the running worker
C16_Witness ==
    /\ workerIsRunning
    /\ checksSinceStart = 2
    /\ timersCreated = 1
    /\ NowMs > startedAt

\* every schedule of the batch of caller c has a result
BatchDone(c) ==
    \A i \in DOMAIN call[c].due : ResultsFor(c, call[c].due[i].id) # {}

Triggers == {"cron", "manual"}

\* kind: "summary" for the 200 answer with the counts, "skipped" for the
\* cron route's answer at its own test of the flag, "error" for status 500;
\* dueFailed, processed: history, whether the read of the due set was
\* rejected and the schedules the sweep took up
NoResponse ==
    [kind |-> "none", total |-> 0, successful |-> 0, failed |-> 0,
     details |-> <<>>, dueFailed |-> FALSE, processed |-> {}]

Count(results, flag) ==
    Cardinality({i \in DOMAIN results : results[i].success = flag})

\* the 200 answer built from results
Summary(results) ==
    [NoResponse EXCEPT !.kind = "summary",
                       !.total = Len(results),
                       !.successful = Count(results, TRUE),
                       !.failed = Count(results, FALSE),
                       !.details = results]

\* executeSchedules has settled in the route: a rejection goes to the catch,
\* which answers 500; else adminLog.create is awaited and, when it is
\* rejected, the catch answers 500 as well; the cron route that saw the flag
\* set has answered before calling executeSchedules
RouteAnswer(c) ==
    /\ UNCHANGED nonTrVars
    /\ call[c].pc = "returned"
    /\ LET history == [dueFailed |-> call[c].threw,
                       processed |-> {call[c].due[i].id : i \in DOMAIN call[c].due}]
           answer(kind) == [NoResponse EXCEPT !.kind = kind]
           body == IF call[c].threw THEN {answer("error")}
                   ELSE IF ~call[c].entered THEN {answer("skipped")}
                   ELSE {Summary(call[c].results), answer("error")}
       IN  \E b \in body :
             response' = [response EXCEPT ![c] =
                             [b EXCEPT !.dueFailed = history.dueFailed,
                                       !.processed = history.processed]]
    /\ call' = [call EXCEPT ![c] = IdleCall]
    /\ UNCHANGED <<now, schedule, isRunning, sweeps, nExec>>

\* C21: a trigger answers with an error exactly when the read of the due
\* set was rejected; otherwise with a summary whose total is successful plus
\* failed and in which every schedule the sweep took up has an entry.
C21_ErrorOnlyWhenDueSetUnreadable ==
    \A c \in Triggers :
        response[c].kind # "none" =>
            /\ response[c].kind = "error" <=> response[c].dueFailed
            /\ ~response[c].dueFailed =>
                /\ response[c].kind = "summary"
                /\ response[c].total = response[c].successful + response[c].failed
                /\ \A id \in response[c].processed :
                     \E i \in DOMAIN response[c].details :
                         response[c].details[i].scheduleId = id

\* ------------------------------------------------------------------------
\* The operator's actions on one schedule: PATCH /api/admin/schedules/[id]
\* ------------------------------------------------------------------------
MaxPatches == 2

PatchActions == {"activate", "deactivate", "run_now", "reset"}

\* existing: the row read by findUnique; data: the updateData object; at: the
\* instant it was built; written: the update went through
IdlePatch ==
    [pc |-> "idle", id |-> "s1", action |-> "activate", existing |-> <<>>,
     data |-> <<>>, at |-> 0, written |-> FALSE]

\* Plausible slip: reset forgets lastRun
UpdateData_lastRun_kept(action, existing, n) ==
    CASE action = "activate" ->
           [isActive |-> TRUE,
            nextRun |-> routeCalculateNextRun(existing.time, existing.frequency, n)]
      [] action = "deactivate" -> [isActive |-> FALSE]
      [] action = "run_now" ->
           [lastRun |-> n, runCount |-> existing.runCount + 1,
            nextRun |-> routeCalculateNextRun(existing.time, existing.frequency, n)]
      [] action = "reset" ->
           [runCount |-> 0,
            nextRun |-> routeCalculateNextRun(existing.time, existing.frequency, n)]

\* the switch on action: the columns the update will set
UpdateData(action, existing, n) ==
    CASE action = "activate" ->
           [isActive |-> TRUE,
            nextRun |-> routeCalculateNextRun(existing.time, existing.frequency, n)]
      [] action = "deactivate" -> [isActive |-> FALSE]
      [] action = "run_now" ->
           [lastRun |-> n, runCount |-> existing.runCount + 1,
            nextRun |-> routeCalculateNextRun(existing.time, existing.frequency, n)]
      [] action = "reset" ->
           [runCount |-> 0, lastRun |-> Null,
            nextRun |-> routeCalculateNextRun(existing.time, existing.frequency, n)]

\* prisma.schedule.update: the columns of data replace those of the row
ApplyUpdate(row, data) ==
    [col \in DOMAIN row |-> IF col \in DOMAIN data THEN data[col] ELSE row[col]]

OpStart ==
    /\ patch = IdlePatch
    /\ patches = 0

\* findUnique has settled with the row: updateData is built and
\* prisma.schedule.update is called
PatchFind(s, action) ==
    /\ UNCHANGED nonOpVars
    /\ patch.pc = "idle"
    /\ patches < MaxPatches
    /\ patches' = patches + 1
    /\ patch' = [IdlePatch EXCEPT !.pc = "update", !.id = s, !.action = action,
                                  !.existing = <<schedule[s]>>,
                                  !.data = <<UpdateData(action, schedule[s], now)>>,
                                  !.at = now]
    /\ UNCHANGED sweepVars

\* the update has settled: the row is written, or the update was rejected
\* and the catch answers 500
PatchUpdate ==
    /\ UNCHANGED nonOpVars
    /\ patch.pc = "update"
    /\ \E ok \in BOOLEAN :
         /\ schedule' = IF ok
                        THEN [schedule EXCEPT ![patch.id] = ApplyUpdate(@, patch.data[1])]
                        ELSE schedule
         /\ patch' = [patch EXCEPT !.pc = "done", !.written = ok]
    /\ UNCHANGED <<patches, now, isRunning, call, sweeps, nExec>>

\* adminLog.create and the answer
PatchRespond ==
    /\ UNCHANGED nonOpVars
    /\ patch.pc = "done"
    /\ patch' = IdlePatch
    /\ UNCHANGED patches
    /\ UNCHANGED sweepVars

\* the step is the write of the PATCH request with the given action
PatchWrites(action) ==
    /\ patch.pc = "update"
    /\ patch.action = action
    /\ patch'.pc = "done"
    /\ patch'.written

\* C25: the write of reset sets runCount to 0 and lastRun to null, sets
\* nextRun to the next-run calculation of the row's time and frequency at
\* the instant of the request, and leaves every other column as it was.
C25_ResetFrame ==
    [][PatchWrites("reset") =>
          LET row == schedule[patch.id]
          IN  schedule'[patch.id] =
                [row EXCEPT !.runCount = 0,
                            !.lastRun = Null,
                            !.nextRun = routeCalculateNextRun(row.time, row.frequency,
                                                              patch.at)]]_vars

\* a reset has been written to a daily schedule that had been run and whose
\* time had passed
C25_Witness ==
    /\ patch.pc = "done"
    /\ patch.action = "reset"
    /\ patch.written
    /\ patch.existing[1].runCount > 0
    /\ patch.existing[1].lastRun # Null
    /\ patch.existing[1].frequency = "daily"
    /\ schedule[patch.id].runCount = 0
    /\ schedule[patch.id].nextRun > schedule[patch.id].time

\* C23: every write of a sweep's bookkeeping and every write of run_now
\* leaves runCount one above the value stored just before it, and only the
\* write of reset lowers runCount.
C23_RunCountRaisedByOne ==
    [][/\ \A c \in Callers :
            Len(call'[c].booked) = Len(call[c].booked) + 1 =>
                LET id == call[c].due[call[c].idx].id
                IN  schedule'[id].runCount = schedule[id].runCount + 1
       /\ PatchWrites("run_now") =>
            schedule'[patch.id].runCount = schedule[patch.id].runCount + 1
       /\ \A s \in Sched :
            schedule'[s].runCount < schedule[s].runCount =>
                PatchWrites("reset") /\ patch.id = s]_vars

\* ------------------------------------------------------------------------
\* Middlewares: rateLimitMiddleware and tokenLimitMiddleware around a handler
\* ------------------------------------------------------------------------
MaxRuns == 2

Middlewares == {"rate", "token"}

\* the checkRateLimit call the rate-limit middleware awaits
MwRequest == "r1"

\* check tells how the check of the request ended ("allowed", "denied",
\* "threw"), count and limit what it compared, failed whether one of its
\* store accesses was rejected; status is the answer of the middleware: the
\* handler's response, the 429 it built, or "rejected" when it threw itself;
\* retryAfter is the Retry-After header of that answer, Null without one
IdleRun ==
    [pc |-> "idle", check |-> "none", handlerCalls |-> 0, status |-> "none",
     retryAfter |-> Null, count |-> 0, limit |-> 0, failed |-> FALSE]

MwStart ==
    /\ mw = [m \in Middlewares |-> IdleRun]
    /\ mwRuns = [m \in Middlewares |-> 0]

\* rateLimitMiddleware up to "await apiRateLimiter.checkRateLimit(...)",
\* which runs checkRateLimit up to its first await
MwCheckBegin(k) ==
    /\ mw["rate"].pc = "idle"
    /\ mwRuns["rate"] < MaxRuns
    /\ rl[MwRequest].pc = "idle"
    /\ CheckBegin(MwRequest, k)

\* Plausible slip: the catch answers 429 instead of running the handler
MwThrow_denies ==
    /\ UNCHANGED nonMwVars
    /\ mw["rate"].pc = "idle"
    /\ mwRuns["rate"] < MaxRuns
    /\ rl[MwRequest].pc = "idle"
    /\ mwRuns' = [mwRuns EXCEPT !["rate"] = @ + 1]
    /\ mw' = [mw EXCEPT !["rate"] =
                [IdleRun EXCEPT !.pc = "responded", !.check = "threw",
                                !.status = "429"]]

\* the try block throws before the check answers (the caller's keyGenerator
\* throws): the catch logs and calls handler()
MwThrow ==
    /\ UNCHANGED nonMwVars
    /\ mw["rate"].pc = "idle"
    /\ mwRuns["rate"] < MaxRuns
    /\ rl[MwRequest].pc = "idle"
    /\ mwRuns' = [mwRuns EXCEPT !["rate"] = @ + 1]
    /\ mw' = [mw EXCEPT !["rate"] =
                [IdleRun EXCEPT !.pc = "caught", !.check = "threw",
                                !.handlerCalls = 1]]

\* checkRateLimit has answered: allowed calls handler(); a denial builds the
\* 429 and sets Retry-After when retryAfter, the time left to usage.reset, is
\* truthy
MwResolve ==
    /\ UNCHANGED nonMwVars
    /\ mw["rate"].pc = "idle"
    /\ rl[MwRequest].pc = "done"
    /\ mwRuns' = [mwRuns EXCEPT !["rate"] = @ + 1]
    /\ LET res == rl[MwRequest]
           retryAfter == heap[res.usage].reset - res.at
           run == [IdleRun EXCEPT !.count = heap[res.usage].count,
                                  !.limit = res.actualLimit]
       IN  mw' = [mw EXCEPT !["rate"] =
                    IF res.allowed
                    THEN [run EXCEPT !.pc = "handler", !.check = "allowed",
                                     !.handlerCalls = 1]
                    ELSE [run EXCEPT !.pc = "responded", !.check = "denied",
                                     !.status = "429",
                                     !.retryAfter = IF retryAfter # 0
                                                    THEN retryAfter ELSE Null]]

\* the answer of checkRateLimit has been taken
MwCheckReturn ==
    /\ mw["rate"].pc # "idle"
    /\ CheckReturn(MwRequest)

\* tokenLimitMiddleware up to "await apiRateLimiter.trackTokenUsage(...)",
\* which runs trackTokenUsage up to its first await
MwTrackBegin(tokens) ==
    /\ mw["token"].pc = "idle"
    /\ mwRuns["token"] < MaxRuns
    /\ TrackBegin(tokens)

\* trackTokenUsage has answered: true calls handler(), false returns the 429
MwTrackResolve ==
    /\ UNCHANGED nonMwVars
    /\ mw["token"].pc = "idle"
    /\ tk.pc = "done"
    /\ mwRuns' = [mwRuns EXCEPT !["token"] = @ + 1]
    /\ LET run == [IdleRun EXCEPT !.count = tk.spend + tk.tokens,
                                  !.limit = tk.maxTokens,
                                  !.failed = tk.failed]
       IN  mw' = [mw EXCEPT !["token"] =
                    IF tk.result
                    THEN [run EXCEPT !.pc = "handler", !.check = "allowed",
                                     !.handlerCalls = 1]
                    ELSE [run EXCEPT !.pc = "responded", !.check = "denied",
                                     !.status = "429"]]

\* the answer of trackTokenUsage has been taken
MwTrackReturn ==
    /\ mw["token"].pc # "idle"
    /\ TrackReturn

\* the handler called in the try block has settled: its response is returned
\* (the rate-limit middleware adds its headers first); when it rejected, the
\* catch of the same try logs and calls handler() again
MwHandler(m) ==
    /\ UNCHANGED nonMwVars
    /\ mw[m].pc = "handler"
    /\ \E ok \in BOOLEAN :
        mw' = [mw EXCEPT ![m] =
                 IF ok
                 THEN [@ EXCEPT !.pc = "responded", !.status = "handler"]
                 ELSE [@ EXCEPT !.pc = "caught", !.handlerCalls = @ + 1]]
    /\ UNCHANGED mwRuns

\* the handler called in the catch has settled: its response is returned, or
\* its rejection is the middleware's
MwCaught(m) ==
    /\ UNCHANGED nonMwVars
    /\ mw[m].pc = "caught"
    /\ \E ok \in BOOLEAN :
        mw' = [mw EXCEPT ![m] =
                 [@ EXCEPT !.pc = "responded",
                           !.status = IF ok THEN "handler" ELSE "rejected"]]
    /\ UNCHANGED mwRuns

\* the request is over; the middleware takes the next one
MwReturn(m) ==
    /\ UNCHANGED nonMwVars
    /\ mw[m].pc = "responded"
    /\ (m = "rate" => rl[MwRequest].pc = "idle")
    /\ (m = "token" => tk.pc = "idle")
    /\ mw' = [mw EXCEPT ![m] = IdleRun]
    /\ UNCHANGED mwRuns

\* C28: the rate-limit middleware calls the handler at most once per
\* request: once when the check allows, and not at all when it denies, where
\* the answer is 429 with a Retry-After value; also when the handler throws.
C28_HandlerAtMostOnce ==
    mw["rate"].pc = "responded" =>
        /\ mw["rate"].handlerCalls <= 1
        /\ mw["rate"].check = "allowed" => mw["rate"].handlerCalls = 1
        /\ mw["rate"].check = "denied" =>
            /\ mw["rate"].handlerCalls = 0
            /\ mw["rate"].status = "429"
            /\ mw["rate"].retryAfter # Null

\* C30: a rejected store access never becomes a denial: trackTokenUsage
\* returns true when one of its store accesses is rejected, a middleware
\* whose check throws runs the handler, and false or 429 comes only from a
\* completed check whose count or total is over the limit.
C30_StoreFailureNeverDenies ==
    /\ tk.pc = "done" =>
        /\ tk.failed => tk.result
        /\ ~tk.result => tk.spend + tk.tokens > tk.maxTokens
    /\ (rl[MwRequest].pc = "done" /\ ~rl[MwRequest].allowed) =>
        heap[rl[MwRequest].usage].count > rl[MwRequest].actualLimit
    /\ \A m \in Middlewares :
        /\ mw[m].check = "threw" =>
            /\ mw[m].handlerCalls >= 1
            /\ mw[m].status # "429"
        /\ mw[m].status = "429" =>
            /\ mw[m].check = "denied"
            /\ ~mw[m].failed
            /\ mw[m].count > mw[m].limit

\* the rate-limit middleware has answered with the handler's response after
\* its check threw, and the token-limit middleware after a rejected store
\* access of trackTokenUsage
C30_Witness ==
    /\ mw["rate"].pc = "responded"
    /\ mw["rate"].check = "threw"
    /\ mw["rate"].status = "handler"
    /\ mw["token"].pc = "responded"
    /\ mw["token"].failed
    /\ mw["token"].status = "handler"

\* ------------------------------------------------------------------------
\* Specifications
\* ------------------------------------------------------------------------
SweepIdle ==
    /\ now = 0
    /\ schedule = [s \in Sched |-> Null]
    /\ isRunning = FALSE
    /\ call = [c \in Callers |-> IdleCall]
    /\ sweeps = 0
    /\ nExec = [s \in Sched |-> 0]

RlIdle ==
    /\ rlNow = 0
    /\ usageCache = [k \in Keys |-> NoRef]
    /\ heap = [o \in 1..MaxCalls |-> Null]
    /\ rl = [r \in Requests |-> IdleRequest]
    /\ rlCalls = 0
    /\ limitPerHour = [k \in Keys |-> 1]
    /\ apiRateLimit = NoSetting
    /\ endpointRateLimit = NoSetting
    /\ gReset = [k \in Keys |-> Null]
    /\ gCount = [k \in Keys |-> 0]
    /\ gAllowed = [k \in Keys |-> 0]
    /\ gDenials = [k \in Keys |-> 0]
    /\ apiUsageLog = 0
    /\ rlNotifications = <<>>

NRIdle ==
    /\ nrBase = 0
    /\ nrFreq = "once"
    /\ nrNow = 0
    /\ nrResult = Null
    /\ nrRouteResult = Null
    /\ nrCreateResult = Null

TkIdle ==
    /\ tkNow = 0
    /\ maxTokensPerDay = NoSetting
    /\ generations = <<>>
    /\ notifications = <<>>
    /\ tk = IdleTrack
    /\ tkChecks = 0

PxIdle ==
    /\ pxNow = 0
    /\ pxSchedule = Null
    /\ px = IdleIteration
    /\ maintenance = [mode |-> "false", scheduled |-> <<>>]

BwIdle == WorkerStart0

TrIdle == response = [c \in Triggers |-> NoResponse]

OpIdle == OpStart

MwIdle == MwStart

SweepInit == SweepStart /\ RlIdle /\ NRIdle /\ TkIdle /\ PxIdle /\ BwIdle /\ TrIdle /\ OpIdle /\ MwIdle

SweepNext ==
    \/ Tick
    \/ TimerTick
    \/ TimerCount
    \/ CronPost
    \/ ManualPost
    \/ \E c \in Callers : GetDue(c)
    \/ \E c \in Callers : Execute(c)
    \/ \E c \in Callers : Update(c)
    \/ \E c \in Callers : Finish(c)
    \/ \E c \in Callers : Respond(c)

Spec == SweepInit /\ [][SweepNext]_vars

\* a daily greeting schedule and a one-shot AI schedule
SweepFairInit ==
    /\ SweepInit
    /\ schedule["s1"].frequency = "daily"
    /\ schedule["s2"].frequency = "once"

\* the same steps with every started sweep going on
SpecSweepFair == SweepFairInit /\ [][SweepNext]_vars /\ WF_vars(SweepStep)

RlInit == RlStart /\ SweepIdle /\ NRIdle /\ TkIdle /\ PxIdle /\ BwIdle /\ TrIdle /\ OpIdle /\ MwIdle

RlNext ==
    \/ RlTick
    \/ \E r \in Requests, k \in Keys : CheckBegin(r, k)
    \/ \E r \in Requests : CheckCount(r)
    \/ \E r \in Requests : CheckAnswer(r)
    \/ \E r \in Requests : CheckNotify(r)
    \/ \E r \in Requests : CheckCreate(r)
    \/ \E r \in Requests : CheckReturn(r)

\* concurrent requests
SpecRateLimit == RlInit /\ [][RlNext]_vars

RlSeqNext ==
    \/ RlTick
    \/ \E r \in Requests, k \in Keys : CheckBeginAlone(r, k)
    \/ \E r \in Requests : CheckCount(r)
    \/ \E r \in Requests : CheckAnswer(r)
    \/ \E r \in Requests : CheckNotify(r)
    \/ \E r \in Requests : CheckCreate(r)
    \/ \E r \in Requests : CheckReturn(r)

\* one request at a time
SpecRateLimitSeq == RlInit /\ [][RlSeqNext]_vars

\* one request at a time and the cache cleared at any moment
RlClearNext ==
    \/ RlTick
    \/ ClearCache
    \/ \E r \in Requests, k \in Keys : CheckBeginAlone(r, k)
    \/ \E r \in Requests : CheckCount(r)
    \/ \E r \in Requests : CheckAnswer(r)
    \/ \E r \in Requests : CheckNotify(r)
    \/ \E r \in Requests : CheckCreate(r)
    \/ \E r \in Requests : CheckReturn(r)

SpecRateLimitClear == RlInit /\ [][RlClearNext]_vars

NRInit == NRStart /\ SweepIdle /\ RlIdle /\ TkIdle /\ PxIdle /\ BwIdle /\ TrIdle /\ OpIdle /\ MwIdle

NRNext == NRCall

SpecNextRun == NRInit /\ [][NRNext]_vars

TkInit == TkStart /\ SweepIdle /\ RlIdle /\ NRIdle /\ PxIdle /\ BwIdle /\ TrIdle /\ OpIdle /\ MwIdle

TkNext ==
    \/ TkTick
    \/ \E n \in TokenAmounts : Generate(n)
    \/ \E tokens \in TokenAmounts : TrackBegin(tokens)
    \/ TrackSetting
    \/ TrackUsage
    \/ TrackDeny
    \/ TrackWarn
    \/ TrackReturn

SpecTokens == TkInit /\ [][TkNext]_vars

PxInit == PxStart /\ SweepIdle /\ RlIdle /\ NRIdle /\ BwIdle /\ TrIdle /\ OpIdle /\ MwIdle

PxNext ==
    \/ PxSelect
    \/ PxExecute
    \/ PxUpdate

SpecIteration == PxInit /\ [][PxNext]_vars

\* the worker over a daily greeting schedule and a one-shot AI schedule
BwInit == SweepFairInit

BwNext ==
    \/ WorkerStart
    \/ WorkerStop
    \/ WorkerTimerFire
    \/ WorkerCount
    \/ WorkerTick
    \/ \E c \in Callers : GetDue(c)
    \/ \E c \in Callers : Execute(c)
    \/ \E c \in Callers : Update(c)
    \/ \E c \in Callers : Finish(c)
    \/ \E c \in Callers : Respond(c)

SpecWorker == BwInit /\ [][BwNext]_vars

\* start, stop and setCheckInterval in any order while no schedule is
\* active, so that every check ends at its count
BwSetInit ==
    /\ WorkerStart0
    /\ now = 0
    /\ schedule \in {[s \in Sched |-> [tb[s] EXCEPT !.isActive = FALSE]] :
                        tb \in [Sched -> NewRows]}
    /\ isRunning = FALSE
    /\ call = [c \in Callers |-> IdleCall]
    /\ sweeps = 0
    /\ nExec = [s \in Sched |-> 0]
    /\ RlIdle /\ NRIdle /\ TkIdle /\ PxIdle /\ TrIdle /\ OpIdle /\ MwIdle

BwSetNext ==
    \/ WorkerStart
    \/ WorkerStop
    \/ \E intervalMs \in IntervalInputs : SetCheckInterval(intervalMs)
    \/ WorkerTimerFire
    \/ WorkerCount
    \/ WorkerTick

SpecWorkerInterval == BwSetInit /\ [][BwSetNext]_vars

\* the two trigger routes over a daily greeting schedule and a one-shot AI
\* schedule
TrInit == SweepFairInit

TrNext ==
    \/ Tick
    \/ CronPost
    \/ ManualPost
    \/ \E c \in Callers : GetDue(c)
    \/ \E c \in Callers : Execute(c)
    \/ \E c \in Callers : Update(c)
    \/ \E c \in Callers : Finish(c)
    \/ \E c \in Triggers : RouteAnswer(c)

SpecTrigger == TrInit /\ [][TrNext]_vars

\* the operator's actions beside manually triggered sweeps, at one instant
OpInit == SweepFairInit

OpNext ==
    \/ ManualPost
    \/ \E s \in Sched, action \in PatchActions : PatchFind(s, action)
    \/ PatchUpdate
    \/ PatchRespond
    \/ \E c \in Callers : GetDue(c)
    \/ \E c \in Callers : Execute(c)
    \/ \E c \in Callers : Update(c)
    \/ \E c \in Callers : Finish(c)
    \/ \E c \in Callers : Respond(c)

SpecOperator == OpInit /\ [][OpNext]_vars

\* the operator's actions alone, over every table of new rows
PatchInit == SweepInit

PatchNext ==
    \/ Tick
    \/ \E s \in Sched, action \in PatchActions : PatchFind(s, action)
    \/ PatchUpdate
    \/ PatchRespond

SpecPatch == PatchInit /\ [][PatchNext]_vars

\* the worker right after start() at instant 0: flag set, the immediate
\* check waiting for its count, one timer set
WorkerStarted ==
    /\ workerIsRunning = TRUE
    /\ intervalId = 1
    /\ checkInterval = DefaultCheckInterval
    /\ timers = {NewTimer(1, DefaultCheckInterval, 0)}
    /\ pendingChecks = 1
    /\ timersCreated = 1
    /\ startedAt = 0
    /\ checksSinceStart = 1
    /\ setCalls = 0
    /\ lastSet = [arg |-> 0, threw |-> FALSE]

BwStartedInit ==
    /\ WorkerStarted
    /\ now = 0
    /\ schedule \in {tb \in [Sched -> NewRows] :
                        /\ tb["s1"].time = 0 /\ tb["s1"].frequency = "daily"
                        /\ tb["s2"].time # 0 /\ tb["s2"].frequency = "once"}
    /\ isRunning = FALSE
    /\ call = [c \in Callers |-> IdleCall]
    /\ sweeps = 1
    /\ nExec = [s \in Sched |-> 0]
    /\ RlIdle /\ NRIdle /\ TkIdle /\ PxIdle /\ TrIdle /\ OpIdle /\ MwIdle

\* a started worker is stopped at some moment; every awaited promise of a
\* sweep settles
BwStopNext ==
    \/ WorkerStop
    \/ WorkerTimerFire
    \/ WorkerCount
    \/ WorkerTick
    \/ \E c \in Callers : GetDue(c)
    \/ \E c \in Callers : Execute(c)
    \/ \E c \in Callers : Update(c)
    \/ \E c \in Callers : Finish(c)
    \/ \E c \in Callers : Respond(c)

SpecWorkerStop == BwStartedInit /\ [][BwStopNext]_vars /\ WF_vars(SweepStep)

\* the rate-limit middleware serving one request after the other, under every
\* configuration of the limit
MwRateInit == MwStart /\ RlStart /\ SweepIdle /\ NRIdle /\ TkIdle /\ PxIdle /\ BwIdle /\ TrIdle /\ OpIdle

MwRateNext ==
    \/ RlTick
    \/ \E k \in Keys : MwCheckBegin(k)
    \/ MwThrow
    \/ CheckCount(MwRequest)
    \/ CheckAnswer(MwRequest)
    \/ CheckNotify(MwRequest)
    \/ CheckCreate(MwRequest)
    \/ MwResolve
    \/ MwCheckReturn
    \/ MwHandler("rate")
    \/ MwCaught("rate")
    \/ MwReturn("rate")

SpecRateMiddleware == MwRateInit /\ [][MwRateNext]_vars

\* the two middlewares side by side: the requests of the rate-limit
\* middleware come from one client within one window, with a limit of one
\* request and no limit setting
MwInit ==
    /\ MwStart /\ RlStart /\ TkStart
    /\ limitPerHour = [k \in Keys |-> 1]
    /\ apiRateLimit = NoSetting
    /\ endpointRateLimit = NoSetting
    /\ SweepIdle /\ NRIdle /\ PxIdle /\ BwIdle /\ TrIdle /\ OpIdle

MwNext ==
    \/ MwCheckBegin("k1")
    \/ MwThrow
    \/ CheckCount(MwRequest)
    \/ CheckAnswer(MwRequest)
    \/ CheckNotify(MwRequest)
    \/ CheckCreate(MwRequest)
    \/ MwResolve
    \/ MwCheckReturn
    \/ \E tokens \in TokenAmounts : MwTrackBegin(tokens)
    \/ TrackSetting
    \/ TrackUsage
    \/ TrackDeny
    \/ TrackWarn
    \/ MwTrackResolve
    \/ MwTrackReturn
    \/ \E m \in Middlewares : MwHandler(m)
    \/ \E m \in Middlewares : MwCaught(m)
    \/ \E m \in Middlewares : MwReturn(m)

SpecMiddleware == MwInit /\ [][MwNext]_vars

====
